---- MODULE Spec2Model ----
(***************************************************************************)
(* pmix: Cell (src/pmix/cell.py) and Worksheet (src/pmix/worksheet.py).    *)
(*                                                                         *)
(* Python values are tagged records [t |-> type, <payload>]; a str is      *)
(* a sequence of one-character strings, so that strip(), str() and header  *)
(* lookup are computed and not assumed.  A float with one decimal is kept  *)
(* as its integer number of tenths.  A list index is 0-based as in the     *)
(* source; the helpers PyValid/PyGet translate it (negative indices        *)
(* included) to the 1-based sequences of TLA+.                             *)
(***************************************************************************)
EXTENDS Integers, Sequences, FiniteSets, TLC

VARIABLES
    count,      \* Worksheet.count, the class attribute
    name,       \* self.name of the worksheet at hand
    data,       \* self.data of the worksheet at hand: a list of rows of Cells
    autoNames,  \* history: the default names handed out so far, in order
    external,   \* history: TRUE once self.data came from outside prepend_row/append_col
    gen,        \* the generator object returned by column(key), not yet consumed
    last        \* the last call: its name, arguments and outcome

vars == <<count, name, data, autoNames, external, gen, last>>

----------------------------------------------------------------------------
(* Bounds of the model *)

MaxRows == 3        \* rows of a table
MaxCols == 3        \* cells of a row
MaxCount == 2       \* worksheets constructed without a name
MaxDays == 2        \* whole days of a raw date value
MaxNum == 12        \* magnitude of a raw number, in tenths
MaxText == 3        \* characters of a raw text value

----------------------------------------------------------------------------
(* Python values *)

NoneV == [t |-> "none"]
VBool(b) == [t |-> "bool", b |-> b]
VInt(n) == [t |-> "int", i |-> n]
VFloat(n) == [t |-> "float", f |-> n]
VText(s) == [t |-> "str", s |-> s]
VDate(tup) == [t |-> "date", d |-> tup]
VTime(tup) == [t |-> "time", tm |-> tup]
VDateTime(tup) == [t |-> "datetime", dt |-> tup]
VList(s) == [t |-> "list", l |-> s]
\* the float of a date cell: `days` whole days and `secs` seconds of a day
XLDate(days, secs) == [t |-> "xldate", days |-> days, secs |-> secs]

Ok(v) == [ok |-> TRUE, value |-> v]
Raise(e, m) == [ok |-> FALSE, err |-> e, msg |-> m]

Range(s) == {s[i] : i \in DOMAIN s}

\* seq[i] of a Python list: valid for -len <= i < len
PyValid(s, i) == -Len(s) <= i /\ i < Len(s)
PyGet(s, i) == IF i >= 0 THEN s[i + 1] ELSE s[Len(s) + i + 1]

----------------------------------------------------------------------------
(* str() of the values a cell holds *)

Digit(d) == CASE d = 0 -> "0" [] d = 1 -> "1" [] d = 2 -> "2" [] d = 3 -> "3"
              [] d = 4 -> "4" [] d = 5 -> "5" [] d = 6 -> "6" [] d = 7 -> "7"
              [] d = 8 -> "8" [] d = 9 -> "9"

RECURSIVE NatStr(_)
NatStr(n) == IF n < 10 THEN <<Digit(n)>> ELSE NatStr(n \div 10) \o <<Digit(n % 10)>>

IntStr(n) == IF n < 0 THEN <<"-">> \o NatStr(-n) ELSE NatStr(n)

Pad2(n) == <<Digit((n \div 10) % 10), Digit(n % 10)>>
Pad4(n) == Pad2(n \div 100) \o Pad2(n % 100)

DateStr(tup) == Pad4(tup[1]) \o <<"-">> \o Pad2(tup[2]) \o <<"-">> \o Pad2(tup[3])
TimeStr(tup) == Pad2(tup[1]) \o <<":">> \o Pad2(tup[2]) \o <<":">> \o Pad2(tup[3])

\* str of the float n/10
FloatStr(n) ==
    LET a == IF n < 0 THEN -n ELSE n
    IN  (IF n < 0 THEN <<"-">> ELSE <<>>) \o NatStr(a \div 10) \o <<".">>
            \o NatStr(a % 10)

PyStr(v) ==
    CASE v.t = "none" -> <<"N", "o", "n", "e">>
      [] v.t = "bool" -> IF v.b THEN <<"T", "r", "u", "e">>
                                ELSE <<"F", "a", "l", "s", "e">>
      [] v.t = "int" -> IntStr(v.i)
      [] v.t = "float" -> FloatStr(v.f)
      [] v.t = "str" -> v.s
      [] v.t = "date" -> DateStr(v.d)
      [] v.t = "time" -> TimeStr(v.tm)
      [] v.t = "datetime" ->
            DateStr(SubSeq(v.dt, 1, 3)) \o <<" ">> \o TimeStr(SubSeq(v.dt, 4, 6))

----------------------------------------------------------------------------
(* Cell *)

Cell(value) == [value |-> value, highlight |-> NoneV]

CellStr(c) == IF c.value = NoneV THEN <<>> ELSE PyStr(c.value)

\* xlrd's cell type tags, as cell.py names them
XL_CELL_EMPTY == 0
XL_CELL_TEXT == 1
XL_CELL_NUMBER == 2
XL_CELL_DATE == 3
XL_CELL_BOOLEAN == 4
XL_CELL_ERROR == 5

Whitespace == {" ", "\t"}

RECURSIVE LStrip(_)
LStrip(s) == IF s # <<>> /\ Head(s) \in Whitespace THEN LStrip(Tail(s)) ELSE s

RECURSIVE RStrip(_)
RStrip(s) ==
    IF s # <<>> /\ s[Len(s)] \in Whitespace THEN RStrip(SubSeq(s, 1, Len(s) - 1)) ELSE s

Strip(s) == RStrip(LStrip(s))

\* int(x) of the float x = n/10: truncation toward zero
IntOf(n) == IF n >= 0 THEN n \div 10 ELSE -((-n) \div 10)

\* xlrd.xldate_as_tuple(value, datemode) in the 1904 date system, for a value
\* of `days` whole days and `secs` seconds within January 1904
xldate_as_tuple(value, datemode) ==
    LET h == value.secs \div 3600
        mi == (value.secs % 3600) \div 60
        s == value.secs % 60
    IN  IF value.days = 0 THEN <<0, 0, 0, h, mi, s>>
        ELSE <<1904, 1, 1 + value.days, h, mi, s>>

\* the split with the test of the time portion first
DateValue_time_test_first(date_tuple) ==
    IF SubSeq(date_tuple, 4, 6) = <<0, 0, 0>> THEN VDate(SubSeq(date_tuple, 1, 3))
    ELSE IF SubSeq(date_tuple, 1, 3) = <<0, 0, 0>> THEN VTime(SubSeq(date_tuple, 4, 6))
    ELSE VDateTime(date_tuple)

DateValue(date_tuple) ==
    IF SubSeq(date_tuple, 1, 3) = <<0, 0, 0>> THEN VTime(SubSeq(date_tuple, 4, 6))
    ELSE IF SubSeq(date_tuple, 4, 6) = <<0, 0, 0>> THEN VDate(SubSeq(date_tuple, 1, 3))
    ELSE VDateTime(date_tuple)

ErrorCellMsg == [kind |-> "error cell"]
UnhandledMsg(cell) == [kind |-> "unhandled", ctype |-> cell.ctype, value |-> cell.value]

cell_value(cell, datemode, stripstr) ==
    IF cell.ctype = XL_CELL_BOOLEAN THEN Ok(VBool(cell.value = VInt(1)))
    ELSE IF cell.ctype = XL_CELL_EMPTY THEN Ok(NoneV)
    ELSE IF cell.ctype = XL_CELL_TEXT THEN
        Ok(VText(IF stripstr THEN Strip(cell.value.s) ELSE cell.value.s))
    ELSE IF cell.ctype = XL_CELL_NUMBER THEN
        Ok(IF IntOf(cell.value.f) * 10 = cell.value.f THEN VInt(IntOf(cell.value.f))
           ELSE cell.value)
    ELSE IF cell.ctype = XL_CELL_DATE THEN
        LET dm == IF datemode = NoneV THEN VInt(1) ELSE datemode
        IN  Ok(DateValue(xldate_as_tuple(cell.value, dm.i)))
    ELSE IF cell.ctype = XL_CELL_ERROR THEN Raise("TypeError", ErrorCellMsg)
    ELSE Raise("TypeError", UnhandledMsg(cell))

\* from_cell that makes a blank cell of what cell_value refuses
from_cell_blank_on_error(cell, datemode, stripstr) ==
    LET r == cell_value(cell, datemode, stripstr)
    IN  Ok(Cell(IF r.ok THEN r.value ELSE NoneV))

from_cell(cell, datemode, stripstr) ==
    LET r == cell_value(cell, datemode, stripstr)
    IN  IF r.ok THEN Ok(Cell(r.value)) ELSE r

----------------------------------------------------------------------------
(* Worksheet *)

IsCell(c) == "highlight" \in DOMAIN c

DefaultName(n) == VText(<<"s", "h", "e", "e", "t">> \o IntStr(n))

\* a constructor that counts every worksheet, named or not
WorksheetInit_counts_all(d, nm, cnt) ==
    [data |-> IF d = NoneV THEN <<>> ELSE d.l,
     name |-> IF nm = NoneV THEN DefaultName(cnt + 1) ELSE nm,
     count |-> cnt + 1]

\* Worksheet.__init__(data=data, name=nm) with Worksheet.count = cnt
WorksheetInit(d, nm, cnt) ==
    [data |-> IF d = NoneV THEN <<>> ELSE d.l,
     name |-> IF nm = NoneV THEN DefaultName(cnt + 1) ELSE nm,
     count |-> IF nm = NoneV THEN cnt + 1 ELSE cnt]

IntegrityMsg == [kind |-> "inconsistent column counts"]

\* ncol without the check of the row lengths
ncol_unchecked(d) == IF Len(d) > 0 THEN Ok(Len(d[1])) ELSE Ok(0)

ncol(d) ==
    IF Len(d) > 0 THEN
        LET lengths == {Len(d[i]) : i \in DOMAIN d}
        IN  IF Cardinality(lengths) > 1 THEN Raise("SpreadsheetError", IntegrityMsg)
            ELSE Ok(CHOOSE l \in lengths : TRUE)
    ELSE Ok(0)

dim(d) ==
    LET nc == ncol(d)
    IN  IF nc.ok THEN Ok(<<Len(d), nc.value>>) ELSE nc

WidthMsg(sheet_width, row_width) ==
    [kind |-> "width inconsistent", sheet |-> sheet_width, row |-> row_width]

WrapRow(row) == [j \in DOMAIN row |-> IF IsCell(row[j]) THEN row[j] ELSE Cell(row[j])]

\* a blank row of one cell whatever the width
BlankRow_single(first_row) == <<Cell(NoneV)>>

BlankRow(first_row) == [j \in DOMAIN first_row |-> Cell(NoneV)]

\* prepend_row without the width test
prepend_row_any_width(d, row) ==
    IF row = NoneV /\ d # <<>> THEN Ok(<<BlankRow(d[1])>> \o d)
    ELSE IF row = NoneV THEN Ok(Append(d, <<Cell(NoneV)>>))
    ELSE Ok(<<WrapRow(row.l)>> \o d)

\* the new self.data, or the exception raised
prepend_row(d, row) ==
    IF row = NoneV /\ d # <<>> THEN Ok(<<BlankRow(d[1])>> \o d)
    ELSE IF row = NoneV THEN Ok(Append(d, <<Cell(NoneV)>>))
    ELSE LET nc == ncol(d)
         IN  IF ~nc.ok THEN nc
             ELSE IF Len(row.l) # nc.value THEN
                 Raise("SpreadsheetError", WidthMsg(nc.value, Len(row.l)))
             ELSE Ok(<<WrapRow(row.l)>> \o d)

\* append_col that extends the header row only
append_col_first_row(d, header) ==
    [i \in DOMAIN d |-> IF i = 1 THEN Append(d[i], Cell(header)) ELSE d[i]]

\* append_col that gives every row the header
append_col_all_header(d, header) == [i \in DOMAIN d |-> Append(d[i], Cell(header))]

\* the new self.data; nothing is raised
append_col(d, header) ==
    [i \in DOMAIN d |-> Append(d[i], IF i = 1 THEN Cell(header) ELSE Cell(NoneV))]

column_headers(d) ==
    IF d # <<>> THEN [j \in DOMAIN d[1] |-> CellStr(d[1][j])] ELSE <<>>

\* tuple.index(x) over the headers: 0-based position of the first match
HeaderIndex(headers, x) ==
    LET hits == {j \in DOMAIN headers : x.t = "str" /\ headers[j] = x.s}
    IN  IF hits = {} THEN Raise("ValueError", x)
        ELSE Ok((CHOOSE j \in hits : \A k \in hits : j <= k) - 1)

\* outcome of running a generator to its end: what it yielded, and how it ended
GenOk(y) == [ok |-> TRUE, yields |-> y]
GenRaise(e, m, y) == [ok |-> FALSE, err |-> e, msg |-> m, yields |-> y]

\* for row in self: yield row[col]
RECURSIVE ColumnLoop(_, _, _, _)
ColumnLoop(d, col, i, acc) ==
    IF i > Len(d) THEN GenOk(acc)
    ELSE IF ~PyValid(d[i], col) THEN GenRaise("IndexError", VInt(col), acc)
    ELSE ColumnLoop(d, col, i + 1, Append(acc, PyGet(d[i], col)))

\* column that takes any key as a header name
column_by_name(d, key) ==
    LET r == HeaderIndex(column_headers(d), key)
    IN  IF ~r.ok THEN GenRaise("KeyError", key, <<>>)
        ELSE ColumnLoop(d, r.value, 1, <<>>)

\* the body of the generator column(key), run to its end
column(d, key) ==
    IF key.t = "str" THEN
        LET r == HeaderIndex(column_headers(d), key)
        IN  IF ~r.ok THEN GenRaise("KeyError", key, <<>>)
            ELSE ColumnLoop(d, r.value, 1, <<>>)
    ELSE IF key.t = "int" THEN ColumnLoop(d, key.i, 1, <<>>)
    ELSE GenRaise("TypeError", key, <<>>)

\* the loop resolving `indices` without the test for duplicates
RECURSIVE ResolveIndices_keep_all(_, _, _)
ResolveIndices_keep_all(indices, headers, result) ==
    IF indices = <<>> THEN Ok(result)
    ELSE LET i == Head(indices)
             item == IF i.t = "int" THEN Ok(i.i) ELSE HeaderIndex(headers, i)
         IN  IF ~item.ok THEN item
             ELSE ResolveIndices_keep_all(Tail(indices), headers, Append(result, item.value))

\* the loop resolving `indices`: strings by header, duplicates dropped
RECURSIVE ResolveIndices(_, _, _)
ResolveIndices(indices, headers, result) ==
    IF indices = <<>> THEN Ok(result)
    ELSE LET i == Head(indices)
             item == IF i.t = "int" THEN Ok(i.i) ELSE HeaderIndex(headers, i)
         IN  IF ~item.ok THEN item
             ELSE ResolveIndices(Tail(indices), headers,
                    IF item.value \in Range(result) THEN result
                    ELSE Append(result, item.value))

\* list.remove(x): drops the first occurrence
ListRemove(s, x) ==
    LET first == CHOOSE j \in DOMAIN s : s[j] = x /\ \A k \in 1..(j - 1) : s[k] # x
    IN  SubSeq(s, 1, first - 1) \o SubSeq(s, first + 1, Len(s))

Descriptor(i, col, headers, row) ==
    [row |-> i, col |-> col, header |-> PyGet(headers, col), cell |-> PyGet(row, col)]

CanDescribe(col, headers, row) == PyValid(headers, col) /\ PyValid(row, col)

\* for j in indices: yield base_data, other_data
RECURSIVE PairLoop(_, _, _, _, _, _)
PairLoop(headers, row, i, base_data, indices, acc) ==
    IF indices = <<>> THEN GenOk(acc)
    ELSE LET j == Head(indices)
         IN  IF ~CanDescribe(j, headers, row) THEN GenRaise("IndexError", VInt(j), acc)
             ELSE PairLoop(headers, row, i, base_data, Tail(indices),
                    Append(acc, <<base_data, Descriptor(i, j, headers, row)>>))

\* for i, row in enumerate(self): i is the 0-based row number
RECURSIVE RowLoop(_, _, _, _, _, _, _)
RowLoop(d, headers, base, indices, start, i, acc) ==
    IF i >= Len(d) THEN GenOk(acc)
    ELSE IF i < start THEN RowLoop(d, headers, base, indices, start, i + 1, acc)
    ELSE IF ~CanDescribe(base, headers, d[i + 1]) THEN
        GenRaise("IndexError", VInt(base), acc)
    ELSE LET r == PairLoop(headers, d[i + 1], i,
                    Descriptor(i, base, headers, d[i + 1]), indices, acc)
         IN  IF ~r.ok THEN r
             ELSE RowLoop(d, headers, base, indices, start, i + 1, r.yields)

\* the body of the generator column_pairs(indices, base, start), run to its end
column_pairs(d, indices, base, start) ==
    LET headers == column_headers(d)
        nc == ncol(d)
        resolved == IF indices = NoneV
                    THEN (IF nc.ok THEN Ok([k \in 1..nc.value |-> k - 1]) ELSE nc)
                    ELSE ResolveIndices(indices.l, headers, <<>>)
    IN  IF ~resolved.ok THEN GenRaise(resolved.err, resolved.msg, <<>>)
        ELSE IF resolved.value = <<>> THEN GenOk(<<>>)
        ELSE IF base = NoneV THEN
            RowLoop(d, headers, Head(resolved.value), Tail(resolved.value), start, 0, <<>>)
        ELSE LET b == IF base.t = "int" THEN Ok(base.i) ELSE HeaderIndex(headers, base)
             IN  IF ~b.ok THEN GenRaise(b.err, b.msg, <<>>)
                 ELSE RowLoop(d, headers, b.value,
                        IF b.value \in Range(resolved.value)
                        THEN ListRemove(resolved.value, b.value)
                        ELSE resolved.value,
                        start, 0, <<>>)

\* [Cell.from_cell(c, datemode) for c in sheet.row(i)]
RECURSIVE ConvertRow(_, _, _)
ConvertRow(raw_row, datemode, cur_row) ==
    IF raw_row = <<>> THEN Ok(cur_row)
    ELSE LET c == from_cell(Head(raw_row), datemode, TRUE)
         IN  IF ~c.ok THEN c
             ELSE ConvertRow(Tail(raw_row), datemode, Append(cur_row, c.value))

\* for i in range(sheet.nrows): worksheet.data.append(cur_row)
RECURSIVE ConvertRows(_, _, _)
ConvertRows(raw_rows, datemode, rows) ==
    IF raw_rows = <<>> THEN Ok(rows)
    ELSE LET r == ConvertRow(Head(raw_rows), datemode, <<>>)
         IN  IF ~r.ok THEN r
             ELSE ConvertRows(Tail(raw_rows), datemode, Append(rows, r.value))

\* the worksheet returned or the exception raised, and Worksheet.count afterwards
from_sheet(sheet, datemode, cnt) ==
    LET worksheet == WorksheetInit(NoneV, sheet.name, cnt)
        rows == ConvertRows(sheet.rows, datemode, worksheet.data)
    IN  [out |-> IF rows.ok THEN Ok([name |-> worksheet.name, data |-> rows.value])
                 ELSE rows,
         count |-> worksheet.count]

----------------------------------------------------------------------------
(* Inputs *)

A == VText(<<"A">>)
B == VText(<<"B">>)
C == VText(<<"C">>)

Letter(j) == CASE j % 3 = 1 -> A [] j % 3 = 2 -> B [] j % 3 = 0 -> C

\* rows of every width up to MaxCols: the raw values A,B,C,A,..; and a row
\* whose first element is already a Cell (highlighted), then 1, then A,A,..
Highlighted == [value |-> NoneV, highlight |-> VText(<<"y">>)]
LetterRow(n) == [j \in 1..n |-> Letter(j)]
CellRow(n) == [j \in 1..n |-> IF j = 1 THEN Highlighted ELSE IF j = 2 THEN VInt(1) ELSE A]
RowInputs ==
    {NoneV} \cup {VList(r) : r \in UNION {{LetterRow(n), CellRow(n)} : n \in 0..MaxCols}}

\* the `data` argument of the constructor: None, rectangular matrices, a ragged one
DataInputs ==
    {NoneV,
     VList(<<WrapRow(LetterRow(3)), WrapRow(CellRow(3))>>),
     VList(<<WrapRow(LetterRow(2)), WrapRow(LetterRow(3))>>)}

NameInputs == {NoneV, VText(<<"S">>)}

\* raw cells as the workbook reader hands them over, and raw sheets of r rows
\* and c columns over a set of them
RawCell(ctype, value) == [ctype |-> ctype, value |-> value]
RawText == RawCell(XL_CELL_TEXT, VText(<<" ", "A">>))
RawOne == RawCell(XL_CELL_NUMBER, VFloat(10))
RawError == RawCell(XL_CELL_ERROR, VInt(7))
RawMidnight == RawCell(XL_CELL_DATE, XLDate(1, 0))
UnknownTags == {6, 9}
RawUnknown == RawCell(6, VText(<<>>))

SheetName == VText(<<"X">>)
RawRows(cells, r, c) == [1..r -> [1..c -> cells]]
RawSheets(cells, maxr, maxc) ==
    {[name |-> SheetName, rows |-> rows] :
        rows \in UNION {RawRows(cells, r, c) : r \in 0..maxr, c \in 1..maxc}}

HeaderInputs == {NoneV, B}

Rectangular(d) == \A i, k \in DOMAIN d : Len(d[i]) = Len(d[k])

----------------------------------------------------------------------------
(* The state after the first construction *)

Called(op, args, out) == [op |-> op, args |-> args, out |-> out]

Init ==
    \E d \in DataInputs, nm \in NameInputs :
        LET ws == WorksheetInit(d, nm, 0)
        IN  /\ count = ws.count
            /\ name = ws.name
            /\ data = ws.data
            /\ autoNames = IF nm = NoneV THEN <<ws.name>> ELSE <<>>
            /\ external = ~Rectangular(ws.data)
            /\ gen = NoneV
            /\ last = Called("Worksheet", <<d, nm>>, Ok(NoneV))

\* the first worksheet was constructed with a name
InitNamed == Init /\ count = 0

(* Worksheet(data=d, name=nm): a new worksheet becomes the one at hand *)
Construct(d, nm) ==
    LET ws == WorksheetInit(d, nm, count)
    IN  /\ nm = NoneV => count < MaxCount
        /\ count' = ws.count
        /\ name' = ws.name
        /\ data' = ws.data
        /\ autoNames' = IF nm = NoneV THEN Append(autoNames, ws.name) ELSE autoNames
        /\ external' = ~Rectangular(ws.data)
        /\ gen' = NoneV
        /\ last' = Called("Worksheet", <<d, nm>>, Ok(NoneV))

(* Worksheet.from_sheet(sheet, datemode): the worksheet returned becomes the
   one at hand; when the call raises, nothing is returned *)
FromSheet(sheet, datemode) ==
    LET r == from_sheet(sheet, datemode, count)
    IN  /\ sheet.name = NoneV => count < MaxCount
        /\ count' = r.count
        /\ name' = IF r.out.ok THEN r.out.value.name ELSE name
        /\ data' = IF r.out.ok THEN r.out.value.data ELSE data
        /\ autoNames' = IF sheet.name = NoneV
                        THEN Append(autoNames, DefaultName(r.count)) ELSE autoNames
        /\ external' = IF r.out.ok THEN ~Rectangular(r.out.value.data) ELSE external
        /\ gen' = IF r.out.ok THEN NoneV ELSE gen
        /\ last' = Called("from_sheet", <<sheet, datemode>>, r.out)

(* self.prepend_row(row) *)
PrependRow(row) ==
    LET r == prepend_row(data, row)
    IN  /\ Len(data) < MaxRows
        /\ data' = IF r.ok THEN r.value ELSE data
        /\ last' = Called("prepend_row", <<row>>, IF r.ok THEN Ok(NoneV) ELSE r)
        /\ UNCHANGED <<count, name, autoNames, external, gen>>

(* self.append_col(header) *)
AppendCol(header) ==
    /\ \A i \in DOMAIN data : Len(data[i]) < MaxCols
    /\ data' = append_col(data, header)
    /\ last' = Called("append_col", <<header>>, Ok(NoneV))
    /\ UNCHANGED <<count, name, autoNames, external, gen>>

(* a caller changes a row in place, outside the methods: ws[i].append(Cell()) *)
DirectAppend(i) ==
    /\ Len(data[i]) < MaxCols
    /\ data' = [data EXCEPT ![i] = Append(@, Cell(NoneV))]
    /\ external' = TRUE
    /\ last' = Called("row.append", <<i - 1>>, Ok(NoneV))
    /\ UNCHANGED <<count, name, autoNames, gen>>

(* self.dim() *)
Dim ==
    /\ last' = Called("dim", <<>>, dim(data))
    /\ UNCHANGED <<count, name, data, autoNames, external, gen>>

(* self.column(key): returns a generator; its body has not started *)
Column(key) ==
    /\ gen' = [key |-> key]
    /\ last' = Called("column", <<key>>, Ok(NoneV))
    /\ UNCHANGED <<count, name, data, autoNames, external>>

(* the generator is consumed to its end: list(gen) *)
Consume ==
    /\ gen # NoneV
    /\ gen' = NoneV
    /\ last' = Called("list(column)", <<gen.key>>, column(data, gen.key))
    /\ UNCHANGED <<count, name, data, autoNames, external>>

(* list(self.column_pairs(indices, base, start)) *)
ColumnPairs(indices, base, start) ==
    /\ last' = Called("column_pairs", <<indices, base, start>>,
                      column_pairs(data, indices, base, start))
    /\ UNCHANGED <<count, name, data, autoNames, external, gen>>

(* Cell.from_cell(cell, datemode, stripstr) *)
FromCell(cell, datemode, stripstr) ==
    /\ last' = Called("from_cell", <<cell, datemode, stripstr>>,
                      from_cell(cell, datemode, stripstr))
    /\ UNCHANGED <<count, name, data, autoNames, external, gen>>

----------------------------------------------------------------------------
(* Worksheet: the mutating methods and the dimension query *)

Next ==
    \/ \E row \in RowInputs : PrependRow(row)
    \/ \E header \in HeaderInputs : AppendCol(header)
    \/ data # <<>> /\ DirectAppend(Len(data))
    \/ Dim

Spec == Init /\ [][Next]_vars

Blank == [value |-> [t |-> "none"], highlight |-> [t |-> "none"]]
IsIntegrityError(out) ==
    ~out.ok /\ out.err = "SpreadsheetError" /\ out.msg.kind = "inconsistent column counts"
\* the column count of a rectangular table
Width(d) == IF d = <<>> THEN 0 ELSE Len(d[1])

\* C1: a worksheet constructed empty or from a rectangular matrix and changed
\* only by prepend_row and append_col (failing calls included) has rows of one
\* length, and dim()/ncol() do not raise on it.
C1_Rectangularity ==
    ~external =>
        /\ \A i, k \in DOMAIN data : Len(data[i]) = Len(data[k])
        /\ dim(data).ok
        /\ ncol(data).ok

C1_Witness ==
    /\ ~external
    /\ Len(data) >= 2
    /\ Len(data[1]) >= 2
    /\ last.op = "prepend_row"
    /\ ~last.out.ok

\* C2: dim() returns (0, 0) on a table without rows, (nrow, c) on a table whose
\* rows all have length c, and raises the integrity error when two rows differ
\* in length; the row change that made the lengths differ raised nothing.
C2_Dim ==
    /\ last.op = "dim" =>
        /\ data = <<>> => last.out = Ok(<<0, 0>>)
        /\ (data # <<>> /\ \A i \in DOMAIN data : Len(data[i]) = Len(data[1]))
                => last.out = Ok(<<Len(data), Len(data[1])>>)
        /\ (\E i, k \in DOMAIN data : Len(data[i]) # Len(data[k]))
                => IsIntegrityError(last.out)
    /\ (last.op = "row.append" /\ ~Rectangular(data)) => last.out.ok

C2_Witness ==
    /\ last.op = "dim"
    /\ Len(data) >= 2
    /\ Len(data[1]) # Len(data[2])
    /\ IsIntegrityError(last.out)

\* C3 as stated: append_col on a table whose rows differ in length raises the
\* integrity error and extends no row.
C3_AppendColRaises ==
    [][(last'.op = "append_col" /\ ~Rectangular(data))
            => (IsIntegrityError(last'.out) /\ data' = data)]_vars

\* C3 amended: append_col on a table whose rows differ in length raises
\* nothing; every row gets one more cell, so the rows still differ in length
\* and the integrity error is raised only by the next dim()/ncol().
C3_AppendColOnRagged ==
    [][(last'.op = "append_col" /\ ~Rectangular(data))
            => /\ last'.out.ok
               /\ Len(data') = Len(data)
               /\ \A i \in DOMAIN data : Len(data'[i]) = Len(data[i]) + 1
               /\ ~Rectangular(data')
               /\ IsIntegrityError(dim(data'))]_vars

C3_Witness ==
    /\ last.op = "append_col"
    /\ last.out.ok
    /\ Len(data) >= 2
    /\ Len(data[1]) # Len(data[2])

\* C6: on a rectangular table of c columns, prepend_row() inserts a row of c
\* blank cells at index 0 (one single-cell blank row when there are no rows);
\* prepend_row(row) with len(row) = c inserts the row at index 0, each element
\* wrapped as a Cell unless it is one; the former rows follow unchanged and the
\* row count grows by 1; with len(row) # c it raises the width error naming
\* both widths and leaves the table unchanged.
C6_PrependRow ==
    [][(last'.op = "prepend_row" /\ Rectangular(data)) =>
        LET row == last'.args[1]
            c == Width(data)
        IN  /\ (row = NoneV /\ data # <<>>) =>
                    /\ last'.out.ok
                    /\ data' = <<[j \in 1..c |-> Blank]>> \o data
            /\ (row = NoneV /\ data = <<>>) =>
                    /\ last'.out.ok
                    /\ data' = << <<Blank>> >>
            /\ (row # NoneV /\ Len(row.l) = c) =>
                    /\ last'.out.ok
                    /\ Len(data') = Len(data) + 1
                    /\ Len(data'[1]) = c
                    /\ \A j \in 1..c :
                        data'[1][j] = IF "highlight" \in DOMAIN row.l[j] THEN row.l[j]
                                      ELSE [value |-> row.l[j], highlight |-> [t |-> "none"]]
                    /\ \A i \in DOMAIN data : data'[i + 1] = data[i]
            /\ (row # NoneV /\ Len(row.l) # c) =>
                    /\ ~last'.out.ok
                    /\ last'.out.err = "SpreadsheetError"
                    /\ last'.out.msg.kind = "width inconsistent"
                    /\ last'.out.msg.sheet = c
                    /\ last'.out.msg.row = Len(row.l)
                    /\ data' = data]_vars

C6_Witness ==
    /\ last.op = "prepend_row"
    /\ last.out.ok
    /\ last.args[1] # NoneV
    /\ ~external
    /\ Len(data) >= 3
    /\ Len(data[1]) = 3
    /\ data[1][1].highlight # [t |-> "none"]

\* C7 as stated: append_col(header) on a rectangular table of n rows and c
\* columns leaves a table of n rows and c+1 columns, header in the new last
\* cell of row 0, a blank cell at the end of every other row, the former cells
\* unchanged.
AppendColEffect(d, e, header) ==
    /\ Len(e) = Len(d)
    /\ \A i \in DOMAIN d :
        /\ Len(e[i]) = Len(d[i]) + 1
        /\ SubSeq(e[i], 1, Len(d[i])) = d[i]
        /\ e[i][Len(e[i])].value = IF i = 1 THEN header ELSE [t |-> "none"]

C7_AppendCol ==
    [][(last'.op = "append_col" /\ Rectangular(data)) =>
        /\ dim(data') = Ok(<<Len(data), Width(data) + 1>>)
        /\ AppendColEffect(data, data', last'.args[1])]_vars

\* C7 amended: the same on a rectangular table of n >= 1 rows; on a table
\* without rows append_col changes nothing: the table keeps 0 rows and 0
\* columns and the header is stored nowhere.
C7_AppendColNonEmpty ==
    [][(last'.op = "append_col" /\ Rectangular(data)) =>
        /\ data # <<>> =>
            /\ dim(data') = Ok(<<Len(data), Width(data) + 1>>)
            /\ AppendColEffect(data, data', last'.args[1])
        /\ data = <<>> =>
            /\ data' = <<>>
            /\ dim(data') = Ok(<<0, 0>>)]_vars

C7_Witness ==
    /\ last.op = "append_col"
    /\ ~external
    /\ Len(data) >= 2
    /\ Len(data[1]) = 3
    /\ data[1][3].value = B
    /\ data[2][3] = Blank

----------------------------------------------------------------------------
(* Worksheet.column: the generator is made by one call and consumed later *)

KeyInputs ==
    {A, B, VText(<<"1">>), VText(<<>>), VText(<<"Z">>),
     VInt(0), VInt(1), VInt(-1), VInt(MaxCols), VInt(-MaxCols - 1),
     NoneV, VFloat(10)}

NextColumn ==
    \/ \E row \in {NoneV} \cup {VList(CellRow(n)) : n \in 1..MaxCols} : PrependRow(row)
    \/ AppendCol(B)
    \/ data # <<>> /\ DirectAppend(Len(data))
    \/ \E key \in KeyInputs : Column(key)
    \/ Consume

ColumnSpec == InitNamed /\ [][NextColumn]_vars

\* 1-based position of the first header equal to the str s; 0 when there is none
FirstHeader(d, s) ==
    IF d = <<>> \/ \A j \in DOMAIN d[1] : CellStr(d[1][j]) # s THEN 0
    ELSE CHOOSE j \in DOMAIN d[1] :
            CellStr(d[1][j]) = s /\ \A k \in 1..(j - 1) : CellStr(d[1][k]) # s

----------------------------------------------------------------------------
(* Worksheet.column_pairs, consumed to its end *)

IndicesInputs ==
    {NoneV,
     VList(<<>>),
     VList(<<VInt(1), VInt(0), VInt(1)>>),
     VList(<<B, VInt(0), A, VInt(2), B>>),
     VList(<<VInt(-1), VInt(0)>>),
     VList(<<VText(<<"Z">>), VInt(0)>>),
     VList(<<VInt(MaxCols)>>)}

BaseInputs == {NoneV, VInt(0), B, VText(<<"Z">>)}

StartInputs == {-1, 0, 1}

NextPairs ==
    \/ \E row \in {VList(LetterRow(n)) : n \in 0..MaxCols} : PrependRow(row)
    \/ AppendCol(B)
    \/ data # <<>> /\ DirectAppend(Len(data))
    \/ \E indices \in IndicesInputs, base \in BaseInputs, start \in StartInputs :
            ColumnPairs(indices, base, start)

PairsSpec == InitNamed /\ [][NextPairs]_vars

\* the column an entry names: an integer itself, a string the first header equal to it
Position(d, x) == IF x.t = "int" THEN x.i ELSE FirstHeader(d, x.s) - 1
Names(d, x) == x.t = "int" \/ (x.t = "str" /\ FirstHeader(d, x.s) # 0)

\* s without the later occurrences of its elements
FirstOccurrences(s) ==
    LET keep == {k \in DOMAIN s : \A m \in 1..(k - 1) : s[m] # s[k]}
    IN  [r \in 1..Cardinality(keep) |->
            s[CHOOSE k \in keep : Cardinality({m \in keep : m <= k}) = r]]

Without(s, x) ==
    LET keep == {k \in DOMAIN s : s[k] # x}
    IN  [r \in 1..Cardinality(keep) |->
            s[CHOOSE k \in keep : Cardinality({m \in keep : m <= k}) = r]]

ResolvedList(d, indices) ==
    IF indices = NoneV THEN [j \in 1..Width(d) |-> j - 1]
    ELSE FirstOccurrences([k \in DOMAIN indices.l |-> Position(d, indices.l[k])])

BaseColumn(d, indices, base) ==
    IF base = NoneV THEN ResolvedList(d, indices)[1] ELSE Position(d, base)

OtherColumns(d, indices, base) ==
    IF base = NoneV THEN Tail(ResolvedList(d, indices))
    ELSE Without(ResolvedList(d, indices), Position(d, base))

At(seq, k) == IF k >= 0 THEN seq[k + 1] ELSE seq[Len(seq) + k + 1]

DescriptorOf(d, i, col) ==
    [row |-> i, col |-> col, header |-> CellStr(At(d[1], col)), cell |-> At(d[i + 1], col)]

\* every entry names a column of the rectangular table d
AllNamed(d, indices, base) ==
    /\ Rectangular(d)
    /\ indices # NoneV => \A k \in DOMAIN indices.l : Names(d, indices.l[k])
    /\ (indices # NoneV /\ d # <<>>) =>
            \A k \in DOMAIN indices.l :
                LET c == Position(d, indices.l[k]) IN -Width(d) <= c /\ c < Width(d)
    /\ (base # NoneV /\ ResolvedList(d, indices) # <<>>) =>
            /\ Names(d, base)
            /\ d # <<>> => (-Width(d) <= Position(d, base) /\ Position(d, base) < Width(d))

----------------------------------------------------------------------------
(* Cell.from_cell and Worksheet.from_sheet over raw cells *)

Chars == {" ", "a"}
Texts == UNION {[1..n -> Chars] : n \in 0..MaxText}
SecsInputs == {0, 1, 60, 3600, 86399}

RawCells ==
    {RawCell(XL_CELL_BOOLEAN, VInt(n)) : n \in 0..2}
    \cup {RawCell(XL_CELL_EMPTY, VText(<<>>))}
    \cup {RawCell(XL_CELL_TEXT, VText(s)) : s \in Texts}
    \cup {RawCell(XL_CELL_NUMBER, VFloat(n)) : n \in (-MaxNum)..MaxNum}
    \cup {RawCell(XL_CELL_DATE, XLDate(d, sec)) : d \in 0..MaxDays, sec \in SecsInputs}
    \cup {RawCell(XL_CELL_ERROR, VInt(7))}
    \cup {RawCell(tag, VText(<<>>)) : tag \in UnknownTags}

DatemodeInputs == {NoneV, VInt(1)}

NextCell ==
    \/ \E cell \in RawCells, datemode \in DatemodeInputs, stripstr \in BOOLEAN :
            FromCell(cell, datemode, stripstr)
    \/ \E sheet \in RawSheets({RawText, RawMidnight, RawError, RawUnknown}, 2, 1)
                        \cup RawSheets({RawText, RawOne, RawError}, 1, 2),
          datemode \in DatemodeInputs :
            FromSheet(sheet, datemode)

CellSpec == InitNamed /\ [][NextCell]_vars

GoodTags == {XL_CELL_BOOLEAN, XL_CELL_EMPTY, XL_CELL_TEXT, XL_CELL_NUMBER, XL_CELL_DATE}

\* the native types a raw cell of a tag may become
NativeTypes(ctype) ==
    CASE ctype = XL_CELL_BOOLEAN -> {"bool"}
      [] ctype = XL_CELL_EMPTY -> {"none"}
      [] ctype = XL_CELL_TEXT -> {"str"}
      [] ctype = XL_CELL_NUMBER -> {"int", "float"}
      [] ctype = XL_CELL_DATE -> {"date", "time", "datetime"}

IsMalformedCellError(out) == ~out.ok /\ out.err = "TypeError" /\ "value" \notin DOMAIN out

\* C8: from_cell on the error tag or a tag outside the six raises the
\* malformed-cell error and makes no Cell; every other tag gives a Cell with a
\* native value of the tag's kind.  from_sheet returns a worksheet, named after
\* the sheet, rows and cells in source order, exactly when no cell of the sheet
\* has such a tag; otherwise the error propagates and no worksheet is returned.
C8_NoDefaultNoPartial ==
    [][/\ last'.op = "from_cell" =>
            LET cell == last'.args[1]
            IN  /\ cell.ctype \notin GoodTags => IsMalformedCellError(last'.out)
                /\ cell.ctype \in GoodTags =>
                    /\ last'.out.ok
                    /\ DOMAIN last'.out.value = {"value", "highlight"}
                    /\ last'.out.value.value.t \in NativeTypes(cell.ctype)
                    /\ last'.out.value.highlight = [t |-> "none"]
                    /\ cell.ctype = XL_CELL_NUMBER =>
                            (last'.out.value.value.t = "int" <=> cell.value.f % 10 = 0)
       /\ last'.op = "from_sheet" =>
            LET sheet == last'.args[1]
                rows == sheet.rows
                bad == \E i \in DOMAIN rows : \E j \in DOMAIN rows[i] :
                            rows[i][j].ctype \notin GoodTags
            IN  /\ last'.out.ok <=> ~bad
                /\ bad => /\ IsMalformedCellError(last'.out)
                          /\ data' = data
                          /\ name' = name
                /\ ~bad =>
                    /\ name' = sheet.name
                    /\ last'.out.value.name = sheet.name
                    /\ last'.out.value.data = data'
                    /\ Len(data') = Len(rows)
                    /\ \A i \in DOMAIN rows :
                        /\ Len(data'[i]) = Len(rows[i])
                        /\ \A j \in DOMAIN rows[i] :
                            data'[i][j].value.t \in NativeTypes(rows[i][j].ctype)
                    /\ \A i \in DOMAIN rows : \A j \in DOMAIN rows[i] :
                        /\ rows[i][j] = RawText => data'[i][j].value = A
                        /\ data'[i][j] = from_cell(rows[i][j], last'.args[2], TRUE).value
      ]_vars

C8_Witness ==
    /\ last.op = "from_sheet"
    /\ Len(last.args[1].rows) = 2
    /\ last.args[1].rows[1][1] = RawText
    /\ last.args[1].rows[2][1] = RawUnknown
    /\ ~last.out.ok
    /\ name # SheetName

\* C9 as stated: the decoded tuple of a date cell gives a time when its date
\* portion is all zero, a date when its time portion is all zero, a datetime
\* otherwise, the tuple with both portions all zero included.
DecodedTuple == xldate_as_tuple(last.args[1].value, 1)
IsDateCall == last.op = "from_cell" /\ last.args[1].ctype = XL_CELL_DATE

C9_ThreeWay ==
    IsDateCall =>
        LET date_part == SubSeq(DecodedTuple, 1, 3)
            time_part == SubSeq(DecodedTuple, 4, 6)
            value == last.out.value.value
        IN  /\ last.out.ok
            /\ date_part = <<0, 0, 0>> => value.t = "time"
            /\ time_part = <<0, 0, 0>> => value.t = "date"
            /\ (date_part # <<0, 0, 0>> /\ time_part # <<0, 0, 0>>) => value.t = "datetime"

\* C9 amended: every decoded tuple falls in exactly one category: a time when
\* the date portion is all zero (the tuple with both portions all zero
\* included: it is the time 00:00:00), a date when the time portion is all
\* zero and the date portion is not, a datetime when neither is all zero; the
\* value holds the tuple's time, date, or both.
C9_DateSplit ==
    IsDateCall =>
        LET date_part == SubSeq(DecodedTuple, 1, 3)
            time_part == SubSeq(DecodedTuple, 4, 6)
            value == last.out.value.value
        IN  /\ last.out.ok
            /\ date_part = <<0, 0, 0>> => value = [t |-> "time", tm |-> time_part]
            /\ (date_part # <<0, 0, 0>> /\ time_part = <<0, 0, 0>>)
                    => value = [t |-> "date", d |-> date_part]
            /\ (date_part # <<0, 0, 0>> /\ time_part # <<0, 0, 0>>)
                    => value = [t |-> "datetime", dt |-> DecodedTuple]

C9_Witness ==
    /\ IsDateCall
    /\ DecodedTuple = <<0, 0, 0, 0, 0, 0>>
    /\ last.out.value.value = [t |-> "time", tm |-> <<0, 0, 0>>]

----------------------------------------------------------------------------
(* Worksheet.count over constructions and the other calls *)

NextCounter ==
    \/ \E d \in {NoneV, VList(<<WrapRow(LetterRow(2))>>)}, nm \in NameInputs :
            Construct(d, nm)
    \/ \E sheet \in RawSheets({RawText, RawError}, 1, 2) : FromSheet(sheet, NoneV)
    \/ \E row \in {NoneV, VList(LetterRow(2))} : PrependRow(row)
    \/ AppendCol(B)
    \/ Dim
    \/ Column(A)
    \/ Consume
    \/ ColumnPairs(NoneV, NoneV, 0)

CounterSpec == Init /\ [][NextCounter]_vars

\* C10: Worksheet.count never decreases; a construction without a name adds
\* exactly 1 and names the sheet "sheet" + the new count; a construction with
\* a name, from_sheet, prepend_row, append_col and the queries leave it alone;
\* so the k-th unnamed worksheet is "sheetk" and no two share a name.
C10_Counter ==
    /\ [](/\ Len(autoNames) = count
          /\ \A k \in DOMAIN autoNames :
                autoNames[k] = [t |-> "str", s |-> <<"s", "h", "e", "e", "t">> \o IntStr(k)]
          /\ \A j, k \in DOMAIN autoNames : j # k => autoNames[j] # autoNames[k])
    /\ [][/\ count' >= count
          /\ (last'.op = "Worksheet" /\ last'.args[2] = NoneV) =>
                /\ count' = count + 1
                /\ name' = [t |-> "str", s |-> <<"s", "h", "e", "e", "t">> \o IntStr(count')]
          /\ (last'.op = "Worksheet" /\ last'.args[2] # NoneV) =>
                /\ count' = count
                /\ name' = last'.args[2]
          /\ last'.op # "Worksheet" => count' = count]_vars

C10_Witness ==
    /\ count = 2
    /\ autoNames = <<VText(<<"s", "h", "e", "e", "t", "1">>),
                     VText(<<"s", "h", "e", "e", "t", "2">>)>>
    /\ last.op = "from_sheet"
    /\ last.out.ok
    /\ name = SheetName

====
